---------------------------- MODULE Spec2Model ----------------------------
(***************************************************************************)
(* Artist clustering: weighted Manhattan distance of every record to the   *)
(* ideal profiles, per-column normalisation, and the binary integer        *)
(* program that assigns records to clusters.                               *)
(*                                                                         *)
(*   src/modified_artist_clustering.py   the multi-profile variant         *)
(*   src/artist_clustering.py            the Ready / Not Ready variant     *)
(*                                                                         *)
(* Python floats are modelled as exact rationals <<numerator, denominator>>*)
(* in lowest terms with a positive denominator.  IEEE division agrees with *)
(* the rationals on the facts used here: v / v = 1.0, v / 1 = v, and       *)
(* division by a positive number is monotone.  Numeric field values are    *)
(* finite: the strings float() reads as inf or nan are not modelled.       *)
(*                                                                         *)
(* The solver (gurobipy) is modelled by its contract: optimize() leaves    *)
(* either an optimal feasible solution, any of them, or the status         *)
(* INFEASIBLE, after which reading a variable's X attribute raises         *)
(* AttributeError.                                                         *)
(***************************************************************************)
EXTENDS Integers, Sequences, FiniteSets, TLC

VARIABLES
    variant,            \* which file's pipeline runs: "multi" or "two"
    pc,                 \* position of the run
    exc,                \* the exception that ended the run, "none" otherwise
    profiles,           \* the names of the profiles passed in, in dict order
    data,               \* the list of records (dicts)
    min_ready_artists,  \* the argument of the two-cluster cluster_artists
    status,             \* the solver's status after optimize()
    x,                  \* the solver's solution
    row,                \* the row argument of one calculate_distance call
    profile,            \* the name of the profile argument of that call
    distance,           \* the value that call returned
    passes              \* how many times normalize_distances has run

vars == <<variant, pc, exc, profiles, data, min_ready_artists, status, x,
          row, profile, distance, passes>>

---------------------------------------------------------------------------
(* Bounds of the model.                                                    *)

\* Numeric field values range over -1 .. MaxValue.
MaxValue == 3

\* The multi-profile pipeline runs over 0 .. MaxRecords records.
MaxRecords == 4

\* The two-cluster pipeline runs over 0 .. MaxArtists records.
MaxArtists == 6

---------------------------------------------------------------------------
(* Rationals.                                                              *)

RECURSIVE GCD(_, _)
GCD(a, b) == IF b = 0 THEN a ELSE GCD(b, a % b)

Abs(n) == IF n < 0 THEN -n ELSE n

\* n / d in lowest terms, d # 0.
Rat(n, d) ==
    LET g == GCD(Abs(n), Abs(d))
        s == IF d < 0 THEN -1 ELSE 1
    IN <<(s * n) \div g, (s * d) \div g>>

RatOf(n) == <<n, 1>>
RatAdd(p, q) == Rat(p[1] * q[2] + q[1] * p[2], p[2] * q[2])
RatDiv(p, q) == Rat(p[1] * q[2], p[2] * q[1])
RatLess(p, q) == p[1] * q[2] < q[1] * p[2]
RatLeq(p, q) == p[1] * q[2] <= q[1] * p[2]
RatIsZero(p) == p[1] = 0

\* Python's max() over a non-empty set of numbers.
RatMax(S) == CHOOSE m \in S : \A q \in S : RatLeq(q, m)

RECURSIVE RatSum(_, _)
\* The sum of f[i] over the finite set S.
RatSum(f, S) ==
    IF S = {} THEN RatOf(0)
    ELSE LET i == CHOOSE j \in S : TRUE
         IN IF S = {i} THEN f[i] ELSE RatAdd(f[i], RatSum(f, S \ {i}))

---------------------------------------------------------------------------
(* Configuration: the profiles and weights of the two files, restricted to *)
(* three of their ten features.                                            *)

Songs == "Number of Songs (Spotify)"
Listeners == "Monthly listeners (Spotify)"
Playlists == "Platform Playlists appearence (Spotify)"

\* The features a profile defines, in dict order.
Features == <<Songs, Listeners, Playlists>>

\* The features the pipelines' records carry.
PipelineFeatures == <<Songs>>

ProfileNames == <<"Ready", "Potential", "Not Ready">>

\* profiles[name]['profile'] of modified_artist_clustering.py; "Ideal" is
\* ideal_artist of artist_clustering.py.
IdealValue(name, feature) ==
    CASE name = "Ready" ->
           (Songs :> 3 @@ Listeners :> 5000 @@ Playlists :> 1)[feature]
      [] name = "Potential" ->
           (Songs :> 2 @@ Listeners :> 2000 @@ Playlists :> 0)[feature]
      [] name = "Not Ready" ->
           (Songs :> 0 @@ Listeners :> 0 @@ Playlists :> 0)[feature]
      [] name = "Ideal" ->
           (Songs :> 3 @@ Listeners :> 5000 @@ Playlists :> 1)[feature]

\* weights of artist_clustering.py.
weights == (Songs :> 1 @@ Listeners :> 2 @@ Playlists :> 1)

---------------------------------------------------------------------------
(* Field values and float().                                               *)

Num(n) == [kind |-> "num", n |-> n]       \* a number or a numeric string
Text == [kind |-> "text", n |-> 0]        \* a non-numeric string, "abc"
Empty == [kind |-> "empty", n |-> 0]      \* the empty string
None == [kind |-> "none", n |-> 0]        \* None
Missing == [kind |-> "missing", n |-> 0]  \* the key is absent from the row

NumValues == {Num(n) : n \in (-1) .. MaxValue}
Values == NumValues \cup {Text, Empty, None, Missing}

\* row.get(feature, 0)
Get(r, feature) == IF r[feature].kind = "missing" THEN Num(0) ELSE r[feature]

\* float(v): the exception it raises, "none" when it returns.
FloatExc(v) ==
    CASE v.kind = "num" -> "none"
      [] v.kind \in {"text", "empty"} -> "ValueError"
      [] v.kind = "none" -> "TypeError"

---------------------------------------------------------------------------
(* calculate_distance, both files.  A call either returns a distance or    *)
(* is ended by the exception it re-raises.                                 *)

Returned(v) == [exc |-> "none", value |-> v]
Raised(e) == [exc |-> e, value |-> 0]

RECURSIVE DistanceLoop(_, _, _, _, _)
\* The loop of modified_artist_clustering.calculate_distance from the k-th
\* feature of the profile on, the running total being acc.
DistanceLoop(r, name, feats, k, acc) ==
    IF k > Len(feats) THEN Returned(acc)
    ELSE LET feature == feats[k]
             ideal_value == IdealValue(name, feature)
             row_value == Get(r, feature)
             e == FloatExc(row_value)
         IN CASE e = "none" ->
                   DistanceLoop(r, name, feats, k + 1,
                                acc + Abs(row_value.n - ideal_value))
              [] e = "ValueError" ->
                   DistanceLoop(r, name, feats, k + 1, acc + ideal_value)
              [] OTHER -> Raised(e)

calculate_distance(r, name, feats) == DistanceLoop(r, name, feats, 1, 0)

RECURSIVE WeightedDistanceLoop(_, _, _, _)
\* The loop of artist_clustering.calculate_distance(row, ideal, weights).
WeightedDistanceLoop(r, feats, k, acc) ==
    IF k > Len(feats) THEN Returned(acc)
    ELSE LET feature == feats[k]
             ideal_value == IdealValue("Ideal", feature)
             weight == weights[feature]
             row_value == Get(r, feature)
             e == FloatExc(row_value)
         IN CASE e = "none" ->
                   WeightedDistanceLoop(r, feats, k + 1,
                       acc + weight * Abs(row_value.n - ideal_value))
              [] e = "ValueError" ->
                   WeightedDistanceLoop(r, feats, k + 1,
                                        acc + weight * ideal_value)
              [] OTHER -> Raised(e)

calculate_distance_ideal(r, feats) == WeightedDistanceLoop(r, feats, 1, 0)

---------------------------------------------------------------------------
(* Records.  dist maps a column ("Distance_to_<name>") to its value, and   *)
(* cluster is "" while the record has no 'Cluster' key.                    *)

NoDist == [c \in {} |-> RatOf(0)]
NoSolution == <<>>

Record(r) == [vals |-> r, dist |-> NoDist, cluster |-> ""]

Range(s) == {s[i] : i \in DOMAIN s}

SetDist(rec, c, v) ==
    [rec EXCEPT !.dist = [d \in DOMAIN rec.dist \cup {c} |->
                            IF d = c THEN v ELSE rec.dist[d]]]

---------------------------------------------------------------------------
(* normalize_distances and calculate_all_distances of the multi-profile    *)
(* file.                                                                   *)

\* A variant of the divisor: the maximum plus one.
MaxDistancePlusOne(d, c) ==
    IF d = <<>> THEN RatOf(1)
    ELSE RatAdd(RatMax({d[i].dist[c] : i \in DOMAIN d}), RatOf(1))

\* max_distance = max(distances) if distances else 1
MaxDistance(d, c) ==
    IF d = <<>> THEN RatOf(1)
    ELSE RatMax({d[i].dist[c] : i \in DOMAIN d})

RECURSIVE NormalizeLoop(_, _, _)
\* The loop over profiles.keys() from the k-th name on.  The first division
\* by a zero maximum raises before any value of that column is written; the
\* columns normalised before it stay normalised.
NormalizeLoop(d, names, k) ==
    IF k > Len(names) THEN [exc |-> "none", data |-> d]
    ELSE LET c == names[k]
             max_distance == MaxDistance(d, c)
         IN IF d # <<>> /\ RatIsZero(max_distance)
            THEN [exc |-> "ZeroDivisionError", data |-> d]
            ELSE NormalizeLoop(
                     [i \in DOMAIN d |->
                        SetDist(d[i], c, RatDiv(d[i].dist[c], max_distance))],
                     names, k + 1)

normalize_distances(d, names) == NormalizeLoop(d, names, 1)

RECURSIVE ScoreRow(_, _, _)
\* The inner loop of calculate_all_distances over the profiles of one row.
ScoreRow(rec, names, k) ==
    IF k > Len(names) THEN [exc |-> "none", rec |-> rec]
    ELSE LET res == calculate_distance(rec.vals, names[k], PipelineFeatures)
         IN IF res.exc # "none" THEN [exc |-> res.exc, rec |-> rec]
            ELSE ScoreRow(SetDist(rec, names[k], RatOf(res.value)),
                          names, k + 1)

RECURSIVE ScoreRows(_, _, _)
\* The outer loop of calculate_all_distances from the i-th row on.
ScoreRows(d, names, i) ==
    IF i > Len(d) THEN [exc |-> "none", data |-> d]
    ELSE LET res == ScoreRow(d[i], names, 1)
             d2 == [d EXCEPT ![i] = res.rec]
         IN IF res.exc # "none" THEN [exc |-> res.exc, data |-> d2]
            ELSE ScoreRows(d2, names, i + 1)

calculate_all_distances(d, names) ==
    LET scored == ScoreRows(d, names, 1)
    IN IF scored.exc # "none" THEN scored
       ELSE normalize_distances(scored.data, names)

---------------------------------------------------------------------------
(* cluster_artists of the multi-profile file.  A solution gives, for each  *)
(* record i, the set x[i] of the cluster indices j with x[i, j] = 1.       *)

NotReadyPenalty == 10

\* Variants of the penalty: none at all, and one on the wrong cluster.
NoPenalty(cluster_name) == 0

PenaltyOnReady(cluster_name) ==
    IF cluster_name = "Ready" THEN NotReadyPenalty ELSE 0

\* 10 if cluster_name == "Not Ready" else 0
Penalty(cluster_name) ==
    IF cluster_name = "Not Ready" THEN NotReadyPenalty ELSE 0

\* A variant of the assignment constraint: >= 1 for == 1.
AtLeastOneCluster(s) == Cardinality(s) >= 1

\* quicksum(x[i, j] for j in range(len(profiles))) == 1
ExactlyOneCluster(s) == Cardinality(s) = 1

\* max(1, len(data) // len(profiles))
min_artists(n, k) == IF n \div k > 1 THEN n \div k ELSE 1

Members(sol, j) == {i \in DOMAIN sol : j \in sol[i]}

\* The assignments that satisfy both families of constraints.
Feasible(d, names) ==
    LET n == Len(d)
        k == Len(names)
        rows == {s \in SUBSET (1 .. k) : ExactlyOneCluster(s)}
    IN {sol \in [1 .. n -> rows] :
          \A j \in 1 .. k : Cardinality(Members(sol, j)) >= min_artists(n, k)}

\* The coefficient of x[i, j] in the objective: distance plus penalty.
Coefficients(d, names) ==
    [i \in 1 .. Len(d) |->
       [j \in 1 .. Len(names) |->
          RatAdd(d[i].dist[names[j]], RatOf(Penalty(names[j])))]]

RECURSIVE ObjectiveFrom(_, _, _, _)
ObjectiveFrom(sol, coef, i, acc) ==
    IF i > Len(coef) THEN acc
    ELSE ObjectiveFrom(sol, coef, i + 1,
                       RatAdd(acc, RatSum(coef[i], sol[i])))

\* The objective: the sum of x[i, j] * coefficient[i, j].
Objective(sol, coef) == ObjectiveFrom(sol, coef, 1, RatOf(0))

\* What optimize() may leave in x: the feasible assignments of least
\* objective.
Optimal(d, names) ==
    LET F == Feasible(d, names)
        coef == Coefficients(d, names)
        costs == {Objective(sol, coef) : sol \in F}
        best == CHOOSE c \in costs : \A q \in costs : RatLeq(c, q)
    IN {sol \in F : Objective(sol, coef) = best}

\* The first j with x[i, j].X > 0.5, 0 when there is none.
FirstCluster(s) == IF s = {} THEN 0 ELSE CHOOSE j \in s : \A k \in s : j <= k

\* The loop that writes data[i]['Cluster'].
Labelled(d, names, sol) ==
    [i \in DOMAIN d |->
       IF FirstCluster(sol[i]) = 0 THEN d[i]
       ELSE [d[i] EXCEPT !.cluster = names[FirstCluster(sol[i])]]]

---------------------------------------------------------------------------
(* The multi-profile pipeline: main() of modified_artist_clustering.py     *)
(* after load_data.                                                        *)

\* The non-empty selections of the registered profiles, in dict order.
ProfileSeqs ==
    {<<"Ready">>, <<"Potential">>, <<"Not Ready">>,
     <<"Ready", "Potential">>, <<"Ready", "Not Ready">>,
     <<"Potential", "Not Ready">>, <<"Ready", "Potential", "Not Ready">>}

PipelineRows == [Range(PipelineFeatures) -> {Num(n) : n \in 0 .. MaxValue}]

Datasets(n) ==
    UNION {[1 .. m -> {Record(r) : r \in PipelineRows}] : m \in 0 .. n}

Idle ==
    /\ row = Record(<<>>).vals
    /\ profile = ""
    /\ distance = 0

InitMulti ==
    /\ variant = "multi"
    /\ pc = "loaded"
    /\ exc = "none"
    /\ profiles \in ProfileSeqs
    /\ data \in Datasets(MaxRecords)
    /\ min_ready_artists = 0
    /\ status = "unsolved"
    /\ x = NoSolution
    /\ passes = 0
    /\ Idle

\* artist_data = calculate_all_distances(artist_data, profiles)
CalculateAllDistances ==
    /\ variant = "multi"
    /\ pc = "loaded"
    /\ LET res == calculate_all_distances(data, profiles)
       IN /\ data' = res.data
          /\ exc' = res.exc
          /\ pc' = IF res.exc = "none" THEN "scored" ELSE "raised"
          /\ passes' = IF res.exc = "TypeError" THEN passes ELSE passes + 1
    /\ UNCHANGED <<variant, profiles, min_ready_artists, status, x,
                   row, profile, distance>>

\* clustered_data = cluster_artists(artist_data, profiles), a feasible model
ClusterArtistsOptimal ==
    /\ variant = "multi"
    /\ pc = "scored"
    /\ \E sol \in Optimal(data, profiles) :
          /\ x' = sol
          /\ data' = Labelled(data, profiles, sol)
    /\ status' = "OPTIMAL"
    /\ pc' = "clustered"
    /\ UNCHANGED <<variant, exc, profiles, min_ready_artists,
                   row, profile, distance, passes>>

\* cluster_artists on an infeasible model: the first x[i, j].X raises, and
\* with no record the loop reads none and the function returns.
ClusterArtistsInfeasible ==
    /\ variant = "multi"
    /\ pc = "scored"
    /\ Feasible(data, profiles) = {}
    /\ status' = "INFEASIBLE"
    /\ pc' = IF data = <<>> THEN "clustered" ELSE "raised"
    /\ exc' = IF data = <<>> THEN exc ELSE "AttributeError"
    /\ UNCHANGED <<variant, profiles, data, min_ready_artists, x,
                   row, profile, distance, passes>>

NextMulti ==
    \/ CalculateAllDistances
    \/ ClusterArtistsOptimal
    \/ ClusterArtistsInfeasible

SpecMulti == InitMulti /\ [][NextMulti]_vars

---------------------------------------------------------------------------
(* The two-cluster pipeline: main() of artist_clustering.py after          *)
(* load_data.  A solution gives x[i] in {0, 1} for each record i.          *)

\* clustered_data = cluster_artists(artist_data, min_ready_artists=5)
DefaultMinReady == 5

RECURSIVE ScoreIdeal(_, _)
\* calculate_all_distances(data, ideal, weights) from the i-th row on.
ScoreIdeal(d, i) ==
    IF i > Len(d) THEN [exc |-> "none", data |-> d]
    ELSE LET res == calculate_distance_ideal(d[i].vals, PipelineFeatures)
         IN IF res.exc # "none" THEN [exc |-> res.exc, data |-> d]
            ELSE ScoreIdeal(
                     [d EXCEPT ![i] = SetDist(@, "Ideal", RatOf(res.value))],
                     i + 1)

Ones(sol) == {i \in DOMAIN sol : sol[i] = 1}

\* A variant of the constraint: off by one.
OneFewerReady(sol, m) == Cardinality(Ones(sol)) >= m - 1

\* quicksum(x[i] for i in range(len(data))) >= min_ready_artists
EnoughReady(sol, m) == Cardinality(Ones(sol)) >= m

FeasibleReady(d, m) == {sol \in [1 .. Len(d) -> {0, 1}] : EnoughReady(sol, m)}

\* quicksum(x[i] * data[i]['Distance_to_Ideal'] for i in range(len(data)))
ObjectiveReady(sol, coef) == RatSum(coef, Ones(sol))

OptimalReady(d, m) ==
    LET F == FeasibleReady(d, m)
        coef == [i \in 1 .. Len(d) |-> d[i].dist["Ideal"]]
        costs == {ObjectiveReady(sol, coef) : sol \in F}
        best == CHOOSE c \in costs : \A q \in costs : RatLeq(c, q)
    IN {sol \in F : ObjectiveReady(sol, coef) = best}

\* data[i]['Cluster'] = 'Ready' if x[i].X > 0.5 else 'Not Ready'
LabelledReady(d, sol) ==
    [i \in DOMAIN d |->
       [d[i] EXCEPT !.cluster = IF sol[i] = 1 THEN "Ready" ELSE "Not Ready"]]

InitTwo ==
    /\ variant = "two"
    /\ pc = "loaded"
    /\ exc = "none"
    /\ profiles = <<>>
    /\ data \in Datasets(MaxArtists)
    /\ min_ready_artists = DefaultMinReady
    /\ status = "unsolved"
    /\ x = NoSolution
    /\ passes = 0
    /\ Idle

\* artist_data = calculate_all_distances(artist_data, ideal_artist, weights)
CalculateAllDistancesIdeal ==
    /\ variant = "two"
    /\ pc = "loaded"
    /\ LET res == ScoreIdeal(data, 1)
       IN /\ data' = res.data
          /\ exc' = res.exc
          /\ pc' = IF res.exc = "none" THEN "scored" ELSE "raised"
    /\ UNCHANGED <<variant, profiles, min_ready_artists, status, x,
                   row, profile, distance, passes>>

\* cluster_artists(artist_data, min_ready_artists=5), a feasible model
ClusterReadyOptimal ==
    /\ variant = "two"
    /\ pc = "scored"
    /\ \E sol \in OptimalReady(data, min_ready_artists) :
          /\ x' = sol
          /\ data' = LabelledReady(data, sol)
    /\ status' = "OPTIMAL"
    /\ pc' = "clustered"
    /\ UNCHANGED <<variant, exc, profiles, min_ready_artists,
                   row, profile, distance, passes>>

\* cluster_artists with fewer records than min_ready_artists: x[0].X raises,
\* and with no record the loop reads none and the function returns.
ClusterReadyInfeasible ==
    /\ variant = "two"
    /\ pc = "scored"
    /\ FeasibleReady(data, min_ready_artists) = {}
    /\ status' = "INFEASIBLE"
    /\ pc' = IF data = <<>> THEN "clustered" ELSE "raised"
    /\ exc' = IF data = <<>> THEN exc ELSE "AttributeError"
    /\ UNCHANGED <<variant, profiles, data, min_ready_artists, x,
                   row, profile, distance, passes>>

NextTwo ==
    \/ CalculateAllDistancesIdeal
    \/ ClusterReadyOptimal
    \/ ClusterReadyInfeasible

SpecTwo == InitTwo /\ [][NextTwo]_vars

---------------------------------------------------------------------------
(* calculate_distance as a function: one call on any row.                  *)

Rows == [Range(Features) -> Values]

InitDistance ==
    /\ variant \in {"multi", "two"}
    /\ pc = "call"
    /\ exc = "none"
    /\ profiles = <<>>
    /\ data = <<>>
    /\ min_ready_artists = 0
    /\ status = "unsolved"
    /\ x = NoSolution
    /\ passes = 0
    /\ row \in Rows
    /\ profile \in IF variant = "multi" THEN Range(ProfileNames) ELSE {"Ideal"}
    /\ distance = 0

Finish(res) ==
    /\ exc' = res.exc
    /\ distance' = res.value
    /\ pc' = IF res.exc = "none" THEN "returned" ELSE "raised"
    /\ UNCHANGED <<variant, profiles, data, min_ready_artists, status, x,
                   row, profile, passes>>

\* modified_artist_clustering.calculate_distance(row, profile)
CalculateDistance ==
    /\ variant = "multi"
    /\ pc = "call"
    /\ Finish(calculate_distance(row, profile, Features))

\* artist_clustering.calculate_distance(row, ideal, weights)
CalculateDistanceIdeal ==
    /\ variant = "two"
    /\ pc = "call"
    /\ Finish(calculate_distance_ideal(row, Features))

NextDistance == CalculateDistance \/ CalculateDistanceIdeal

SpecDistance == InitDistance /\ [][NextDistance]_vars

---------------------------------------------------------------------------
(* normalize_distances as a function: applied, and applied again, to the   *)
(* raw distances calculate_all_distances hands it.                         *)

InitNormalize ==
    /\ variant = "multi"
    /\ pc = "raw"
    /\ exc = "none"
    /\ profiles \in ProfileSeqs
    /\ data \in {ScoreRows(d, profiles, 1).data : d \in Datasets(MaxRecords)}
    /\ min_ready_artists = 0
    /\ status = "unsolved"
    /\ x = NoSolution
    /\ passes = 0
    /\ Idle

\* normalize_distances(data, profiles)
NormalizeDistances ==
    /\ pc \in {"raw", "normalized"}
    /\ passes < 2
    /\ LET res == normalize_distances(data, profiles)
       IN /\ data' = res.data
          /\ exc' = res.exc
          /\ pc' = IF res.exc = "none" THEN "normalized" ELSE "raised"
    /\ passes' = passes + 1
    /\ UNCHANGED <<variant, profiles, min_ready_artists, status, x,
                   row, profile, distance>>

SpecNormalize == InitNormalize /\ [][NormalizeDistances]_vars

---------------------------------------------------------------------------
(* Properties.                                                             *)

N == Len(data)
K == Len(profiles)

\* The records labelled with the cluster called name.
LabelledWith(name) == {i \in DOMAIN data : data[i].cluster = name}

\* The floor the specification gives every cluster.
MinSize == IF N \div K >= 1 THEN N \div K ELSE 1

\* cluster_artists of the multi-profile file has returned.
MultiReturned == variant = "multi" /\ pc = "clustered"

\* C1: when the multi-profile cluster_artists returns, every record carries
\* a 'Cluster' label that is a registered profile name, and that name is the
\* one of the single cluster j with x[i, j] = 1.
C1_OneRegisteredLabel ==
    MultiReturned =>
        \A i \in DOMAIN data :
            \E j \in 1 .. K : data[i].cluster = profiles[j] /\ x[i] = {j}

C1_Witness ==
    MultiReturned /\ status = "OPTIMAL" /\ N >= 3 /\ K = 3

\* C2: in every assignment the multi-profile cluster_artists returns over N
\* records and K profiles, each cluster has at least max(1, N // K) records
\* labelled with it.
C2_ClusterFloor ==
    MultiReturned =>
        \A j \in 1 .. K : Cardinality(LabelledWith(profiles[j])) >= MinSize

\* C3: when cluster_count * min_size exceeds the record count,
\* cluster_artists ends with a ModelInfeasible outcome of its own and no
\* record receives a 'Cluster' label.
C3_InfeasibleSurfaced ==
    (variant = "multi" /\ status # "unsolved" /\ K * MinSize > N) =>
        /\ pc = "raised"
        /\ exc = "ModelInfeasible"
        /\ \A i \in DOMAIN data : data[i].cluster = ""

\* The values of one distance column.
Column(c) == {data[i].dist[c] : i \in DOMAIN data}

\* C4: normalize_distances never raises, and after it every column has
\* maximum exactly 1 with all values in [0, 1], or is all zeros.
C4_NormalizedColumns ==
    (variant = "multi" /\ passes = 1) =>
        /\ exc = "none"
        /\ \A c \in Range(profiles) :
              \/ /\ \A v \in Column(c) : RatLeq(RatOf(0), v) /\ RatLeq(v, RatOf(1))
                 /\ N > 0 => RatOf(1) \in Column(c)
              \/ \A v \in Column(c) : RatIsZero(v)

\* The total the specification minimises, for the assignment a of records
\* to cluster indices.
SpecCost(a) ==
    RatSum([i \in 1 .. N |->
              RatAdd(data[i].dist[profiles[a[i]]],
                     RatOf(IF profiles[a[i]] = "Not Ready" THEN 10 ELSE 0))],
           1 .. N)

\* a gives every cluster its floor.
MeetsFloors(a) ==
    \A j \in 1 .. K : Cardinality({i \in DOMAIN data : a[i] = j}) >= MinSize

\* The assignment the labels of data state.
LabelIndex == [i \in DOMAIN data |-> CHOOSE j \in 1 .. K : profiles[j] = data[i].cluster]

\* C5: the assignment the multi-profile cluster_artists returns is globally
\* optimal: whenever an assignment gives every cluster its floor, the
\* returned one does too and its total of normalised distance plus penalty
\* is not strictly larger.
C5_GloballyOptimal ==
    MultiReturned =>
        LET returned == LabelIndex
            total == SpecCost(returned)
            meets == MeetsFloors(returned)
        IN \A a \in [DOMAIN data -> 1 .. K] :
              MeetsFloors(a) => (meets /\ ~RatLess(SpecCost(a), total))

C5_Witness ==
    /\ MultiReturned /\ status = "OPTIMAL" /\ K = 3 /\ N = 4
    /\ \E a \in [DOMAIN data -> 1 .. K] :
          MeetsFloors(a) /\ RatLess(SpecCost(LabelIndex), SpecCost(a))

\* The record matches the profile's ideal value on every feature.
Matches(r, name) ==
    \A f \in Range(Features) :
        Get(r, f).kind = "num" /\ Get(r, f).n = IdealValue(name, f)

\* C6: calculate_distance returns a value >= 0, and exactly 0 if and only
\* if the record matches the profile's ideal value on every feature.
C6_ZeroIffMatches ==
    pc = "returned" =>
        /\ distance >= 0
        /\ distance = 0 <=> Matches(row, profile)

Malformed(v) == v.kind \in {"text", "empty", "none"}

Weight(f) == IF variant = "two" THEN weights[f] ELSE 1

\* The distance of the specification: the penalty term for a malformed
\* field, the weighted absolute difference for the others.
RECURSIVE SpecDistanceOf(_, _, _)
SpecDistanceOf(r, name, fs) ==
    IF fs = {} THEN 0
    ELSE LET f == CHOOSE g \in fs : TRUE
             term == IF Malformed(Get(r, f))
                     THEN Weight(f) * IdealValue(name, f)
                     ELSE Weight(f) * Abs(Get(r, f).n - IdealValue(name, f))
         IN term + SpecDistanceOf(r, name, fs \ {f})

\* C7: on a record with a field that is no number (a non-numeric string, an
\* empty string, None) calculate_distance does not raise: it returns the sum
\* with weight * ideal_value as that field's term.
C7_MalformedNeverRaises ==
    (pc # "call" /\ \E f \in Range(Features) : Malformed(row[f])) =>
        /\ pc = "returned"
        /\ distance = SpecDistanceOf(row, profile, Range(Features))

\* Every other cluster's distance for record i exceeds its distance to
\* "Not Ready" plus the penalty.
OthersExceedPenalty(i) ==
    \A c \in Range(profiles) \ {"Not Ready"} :
        RatLess(RatAdd(data[i].dist["Not Ready"], RatOf(10)), data[i].dist[c])

\* C8 as stated: a record is assigned to "Not Ready" only when every other
\* cluster's normalised distance for it exceeds its "Not Ready" distance
\* plus the penalty.
C8_OnlyBeyondPenalty ==
    MultiReturned => \A i \in LabelledWith("Not Ready") : OthersExceedPenalty(i)

\* C8: a record is assigned to "Not Ready" only when every other cluster's
\* normalised distance for it exceeds its "Not Ready" distance plus the
\* penalty, or when "Not Ready" holds exactly its floor of max(1, N // K)
\* records.
C8_OnlyBeyondPenaltyOrFloor ==
    MultiReturned =>
        \A i \in LabelledWith("Not Ready") :
            \/ OthersExceedPenalty(i)
            \/ Cardinality(LabelledWith("Not Ready")) = MinSize

C8_Witness ==
    /\ MultiReturned /\ K >= 2 /\ N > K
    /\ \E i \in LabelledWith("Not Ready") :
          \E c \in Range(profiles) \ {"Not Ready"} :
              RatLess(data[i].dist[c], data[i].dist["Not Ready"])

\* The records as calculate_all_distances scores them before normalising,
\* and after one normalize_distances.
RawData == ScoreRows([i \in DOMAIN data |-> Record(data[i].vals)], profiles, 1).data
NormalizedOnce == normalize_distances(RawData, profiles).data

TwicePassed == variant = "multi" /\ passes = 2 /\ exc = "none"

\* On the dataset d with the profiles names, which has a non-zero raw
\* distance, a second normalize_distances changes the values the first left.
SecondPassChanges(d, names) ==
    LET raw == ScoreRows(d, names, 1).data
        once == normalize_distances(raw, names)
    IN /\ \E i \in DOMAIN raw : \E c \in Range(names) : ~RatIsZero(raw[i].dist[c])
       /\ once.exc = "none"
       /\ normalize_distances(once.data, names).data # once.data

\* C9 as stated: normalize_distances is not idempotent, there is a dataset
\* with a non-zero raw distance on which a second application changes the
\* values the first one left.
C9_SecondPassChanges ==
    TwicePassed =>
        \E names \in ProfileSeqs : \E d \in Datasets(MaxRecords) :
            SecondPassChanges(d, names)

\* C9: normalize_distances is idempotent, a second application leaves the
\* values the first one left unchanged.
C9_SecondPassChangesNothing ==
    TwicePassed => data = NormalizedOnce

C9_Witness ==
    /\ TwicePassed /\ N >= 2
    /\ \E c \in Range(profiles) :
          \E v \in Column(c) : ~RatIsZero(v) /\ v # RatOf(1)

Ideal(i) == data[i].dist["Ideal"]

\* C10: with at least min_ready_artists records and all distances positive,
\* the two-cluster cluster_artists labels every record 'Ready' or
\* 'Not Ready', exactly min_ready_artists of them 'Ready', no 'Not Ready'
\* record being strictly nearer than a 'Ready' one, and leaves the
\* distances and the order of the records as they were.
C10_TwoClusterLabels ==
    [][(/\ variant = "two" /\ pc = "scored" /\ pc' = "clustered"
        /\ N >= min_ready_artists
        /\ \A i \in DOMAIN data : RatLess(RatOf(0), Ideal(i)))
       =>
       (/\ DOMAIN data' = DOMAIN data
        /\ \A i \in DOMAIN data :
              /\ data'[i].cluster \in {"Ready", "Not Ready"}
              /\ data'[i].vals = data[i].vals
              /\ data'[i].dist = data[i].dist
        /\ Cardinality({i \in DOMAIN data : data'[i].cluster = "Ready"})
              = min_ready_artists
        /\ \A i, k \in DOMAIN data :
              (data'[i].cluster = "Not Ready" /\ data'[k].cluster = "Ready")
                  => ~RatLess(Ideal(i), Ideal(k)))]_vars

C10_Witness ==
    /\ variant = "two" /\ pc = "clustered" /\ N > min_ready_artists
    /\ \A i \in DOMAIN data : RatLess(RatOf(0), Ideal(i))
    /\ \E i, k \in DOMAIN data :
          /\ data[i].cluster = "Not Ready" /\ data[k].cluster = "Ready"
          /\ RatLess(Ideal(k), Ideal(i))

=============================================================================
